---- MODULE Spec2Model ----
(***************************************************************************)
(* A state-machine model of src/src/mapreduce.c: the two emission buffers  *)
(* (mr_emit_i, mr_emit_f), the map and reduce workers, and the             *)
(* orchestrator mr_exec (map stage, group-by-key, reduce stage, packing).  *)
(*                                                                         *)
(* Strings.  A C string argument is a sequence of non-zero bytes.  A       *)
(* stored field (char key[MAX_KEY_SIZE], char value[MAX_VALUE_SIZE]) is a  *)
(* sequence of exactly that many bytes, 0 being the terminator.            *)
(* C indices are kept 0-based; sequence s holds C element i at s[i + 1].   *)
(***************************************************************************)
EXTENDS Integers, Sequences, FiniteSets, Bags, TLC

\* interface.h is not part of the sources; the key bound is the one the
\* specification's truncation example uses, the value bound is chosen smaller.
MAX_KEY_SIZE == 8
MAX_VALUE_SIZE == 4

\* #define INITIAL_CAP 1024, scaled down so that growth by doubling happens
\* within a few appends.
INITIAL_CAP == 1

\* Bounds of the model: the number of input records of all calls of mr_exec
\* together, and the largest mapper_count / reducer_count.
MaxRecords == 3
MaxWorkers == 2

\* Bounds of the partitioning runs: the largest item count and worker count.
PartItems == 7
PartWorkers == 4

\* Bound of the model: the number of times realloc, malloc or pthread_create
\* fail, over all calls of mr_exec together.
MaxFaults == 1

---------------------------------------------------------------------------
(* Bounded strings *)

\* strncpy(dst, src, n): the first n bytes of src, padded with 0 when src is
\* shorter than n; no terminator is written when Len(src) >= n.
Strncpy(src, n) ==
    [i \in 1..n |-> IF i <= Len(src) THEN src[i] ELSE 0]

HasNul(f) == \E i \in 1..Len(f) : f[i] = 0

\* Index of the first 0 byte of a field that has one.
FirstNul(f) == CHOOSE i \in 1..Len(f) : f[i] = 0 /\ \A j \in 1..(i - 1) : f[j] # 0

\* The bytes a C string read of field f yields from the field itself: up to
\* the first 0, or the whole field when it holds no 0 (the read then runs on
\* into whatever follows the field in memory).
CStr(f) == IF HasNul(f) THEN SubSeq(f, 1, FirstNul(f) - 1) ELSE f

\* The string strcmp reads at the key of a kv_pair_t: key and value are
\* adjacent char arrays, so an unterminated key runs on into the value.
KeyStr(e) == IF HasNul(e.key) THEN CStr(e.key) ELSE e.key \o CStr(e.value)

\* strcmp: byte-wise comparison, negative / zero / positive.
RECURSIVE Strcmp(_, _)
Strcmp(s, t) ==
    IF s = <<>> /\ t = <<>> THEN 0
    ELSE IF s = <<>> THEN -1
    ELSE IF t = <<>> THEN 1
    ELSE IF Head(s) < Head(t) THEN -1
    ELSE IF Head(s) > Head(t) THEN 1
    ELSE Strcmp(Tail(s), Tail(t))

\* (Variant: the operands swapped.)
MutCmpKv(A, B) == Strcmp(KeyStr(B), KeyStr(A))

\* cmp_kv: strcmp(A->key, B->key).
cmp_kv(A, B) == Strcmp(KeyStr(A), KeyStr(B))

\* A slot of a buffer's storage that realloc returned and no append wrote.
Uninit == [key |-> <<>>, value |-> <<>>]

\* The entry lines 44-45 / 64-65 write for the arguments (key, value).
StoredPair(p) ==
    [key |-> Strncpy(p.key, MAX_KEY_SIZE), value |-> Strncpy(p.value, MAX_VALUE_SIZE)]

\* (Variant: growth by one entry instead of doubling.)
MutNewCap(cap) == cap + 1

\* newcap = cap ? cap * 2 : INITIAL_CAP
NewCap(cap) == IF cap # 0 THEN cap * 2 ELSE INITIAL_CAP

\* realloc(kvs, newcap): the old contents followed by unwritten slots.
Realloc(kvs, newcap) == kvs \o [i \in 1..(newcap - Len(kvs)) |-> Uninit]

---------------------------------------------------------------------------
(* qsort *)

\* x inserted into the sorted sequence t at every place that keeps it sorted.
InsertSorted(x, t) ==
    { SubSeq(t, 1, k) \o <<x>> \o SubSeq(t, k + 1, Len(t)) :
        k \in { k \in 0..Len(t) :
                  /\ (k > 0 => cmp_kv(t[k], x) <= 0)
                  /\ (k < Len(t) => cmp_kv(x, t[k + 1]) <= 0) } }

\* qsort(base, n, ..., cmp_kv): every arrangement of s that is ordered by
\* cmp_kv; the order of elements that compare equal is unspecified.
RECURSIVE Qsort(_)
Qsort(s) ==
    IF s = <<>> THEN { <<>> }
    ELSE UNION { InsertSorted(Head(s), t) : t \in Qsort(Tail(s)) }

---------------------------------------------------------------------------
(* The caller: inputs and callbacks *)

\* ("a","1"), ("b","2"), ("a","3"): the records inputs are made of.
Stream ==
    << [key |-> <<97>>, value |-> <<49>>],
       [key |-> <<98>>, value |-> <<50>>],
       [key |-> <<97>>, value |-> <<51>>] >>

\* The input of n records that starts at record s of the stream and wraps.
Window(s, n) == [k \in 1..n |-> Stream[((s + k - 2) % Len(Stream)) + 1]]

\* The inputs of at most n records.
Inputs(n) == { Window(s, m) : s \in 1..Len(Stream), m \in 0..n }

MapFns == {"identity", "none", "long"}

ReduceFns == {"concat", "none", "each"}

\* "verylongkey"
LongTail == <<118, 101, 114, 121, 108, 111, 110, 103, 107, 101, 121>>

\* The mr_emit_i calls the map callback makes for input record r, in order.
MapEmits(fn, r) ==
    CASE fn = "identity" -> << [key |-> r.key, value |-> r.value] >>
      [] fn = "none" -> << >>
      [] fn = "long" -> IF r.key = <<97>>
                        THEN << [key |-> r.key \o LongTail, value |-> r.value] >>
                        ELSE << [key |-> r.key, value |-> r.value \o <<50, 51, 52>>] >>

RECURSIVE ConcatValues(_)
ConcatValues(vs) ==
    IF vs = <<>> THEN <<>> ELSE CStr(Head(vs)) \o ConcatValues(Tail(vs))

\* The mr_emit_f calls the reduce callback makes for group g, in order.
ReduceEmits(fn, g) ==
    CASE fn = "concat" -> << [key |-> CStr(g.key), value |-> ConcatValues(g.value)] >>
      [] fn = "none" -> << >>
      [] fn = "each" -> [k \in 1..g.count |-> [key |-> CStr(g.key), value |-> CStr(g.value[k])]]

---------------------------------------------------------------------------
(* State *)

VARIABLES
    inter_kvs, inter_count, inter_cap, inter_lock,  \* lines 16-18, 26
    final_kvs, final_count, final_cap, final_lock,  \* lines 21-23, 29
    pc,             \* where the orchestrator (the caller's thread) is
    budget,         \* input records the calls still to come may take
    faults,         \* failures of realloc / malloc / pthread_create still to come
    input, map_fn, mapper_count, reduce_fn, reducer_count,  \* mr_exec's arguments
    t,              \* loop index of the spawn and join loops
    offset,         \* offset / off of the partitioning loops
    tasks,          \* tasks[]: each task's range and its thread's position
    groups,         \* groups[0 .. gcount-1]
    i,              \* loop index of the group walk and of the packing loop
    output, ret,    \* *output and the value mr_exec returned
    h               \* history of the current run (observation only)

bufvars == <<inter_kvs, inter_count, inter_cap, inter_lock,
             final_kvs, final_count, final_cap, final_lock>>

argvars == <<input, map_fn, mapper_count, reduce_fn, reducer_count>>

vars == <<inter_kvs, inter_count, inter_cap, inter_lock,
          final_kvs, final_count, final_cap, final_lock,
          pc, budget, faults, input, map_fn, mapper_count, reduce_fn, reducer_count,
          t, offset, tasks, groups, i, output, ret, h>>

\* A mutex is the set of the threads that hold it; none does.
NoOwner == {}

\* The orchestrator's own thread, which runs the callbacks itself when the
\* stage's worker count is <= 1.
Self == 0

\* (Variant: a lock that excludes nobody.)
MutMutexFree(lock) == TRUE

\* A mutex that is not locked: pthread_mutex_lock returns only then.
MutexFree(lock) == lock = NoOwner

\* The caller's struct mr_output before mr_exec has written it: no list, and
\* a count that is no count.
NoOutput == [kv_lst |-> <<>>, count |-> -1]

\* What the current call of mr_exec has done so far: how often each record
\* was mapped and each group reduced, the arguments of the emit calls that
\* returned 0, and which failures happened (failAt: the buffer's count when
\* a growth last failed).
NoHistory ==
    [mapCalls |-> <<>>, redCalls |-> <<>>, ok_i |-> EmptyBag, ok_f |-> EmptyBag,
     emitFail |-> FALSE, spawnFail |-> FALSE, allocFail |-> FALSE,
     nullWrite |-> FALSE, failAt |-> -1]

\* PTHREAD_MUTEX_INITIALIZER, NULL buffers, no call of mr_exec made yet.
Init ==
    /\ inter_kvs = <<>> /\ inter_count = 0 /\ inter_cap = 0 /\ inter_lock = NoOwner
    /\ final_kvs = <<>> /\ final_count = 0 /\ final_cap = 0 /\ final_lock = NoOwner
    /\ pc = "idle" /\ budget = MaxRecords /\ faults = MaxFaults
    /\ input = <<>> /\ map_fn = "none" /\ mapper_count = 0
    /\ reduce_fn = "none" /\ reducer_count = 0
    /\ t = 0 /\ offset = 0 /\ tasks = <<>> /\ groups = <<>> /\ i = 0
    /\ output = NoOutput /\ ret = "none"
    /\ h = NoHistory

MapStage == pc \in {"map_seq", "map_spawn", "map_join"}

ReduceStage == pc \in {"red_seq", "red_spawn", "red_join"}

\* A task whose thread was not created yet.
Unborn == [start |-> 0, end |-> 0, i |-> 0, pc |-> "unborn", em |-> 0]

\* The task of a thread that starts (or of the sequential loop) over [s, e).
Started(s, e) == [start |-> s, end |-> e, i |-> s, pc |-> "loop", em |-> 0]

\* The task of a thread pthread_create failed to create.
NoThread(s, e) == [start |-> s, end |-> e, i |-> s, pc |-> "nothread", em |-> 0]

Running(w) == tasks[w].pc \in {"loop", "call", "grow", "store", "inc"}

\* The emit calls of the callback invocation task w is in.
Emits(w) ==
    IF MapStage THEN MapEmits(map_fn, input[tasks[w].i + 1])
    ELSE ReduceEmits(reduce_fn, groups[tasks[w].i + 1])

Bump(calls, k) == [calls EXCEPT ![k + 1] = @ + 1]

---------------------------------------------------------------------------
(* mr_exec: entry and map stage, lines 107-144 *)

\* (Variant: the whole remainder given to the last worker.)
MutChunkSize(N, W, k) == (N \div W) + (IF k = W - 1 THEN N % W ELSE 0)

\* chunk_size = base + (t < rem ? 1 : 0)
ChunkSize(N, W, k) == (N \div W) + (IF k < (N % W) THEN 1 ELSE 0)

\* (Variant: lines 111-112 left out, the counts of the previous run kept.)
Mut_mr_exec_enter ==
    /\ pc = "idle"
    /\ \E in \in Inputs(budget), mf \in MapFns, mc \in 0..MaxWorkers,
          rf \in ReduceFns, rc \in 0..MaxWorkers :
         /\ budget' = budget - Len(in)
         /\ input' = in /\ map_fn' = mf /\ mapper_count' = mc
         /\ reduce_fn' = rf /\ reducer_count' = rc
         /\ h' = [NoHistory EXCEPT !.mapCalls = [k \in 1..Len(in) |-> 0]]
         /\ IF mc <= 1
            THEN /\ pc' = "map_seq"
                 /\ tasks' = (Self :> Started(0, Len(in)))
            ELSE /\ pc' = "map_spawn"
                 /\ tasks' = [w \in 0..(mc - 1) |-> Unborn]
    /\ t' = 0 /\ offset' = 0 /\ ret' = "none"
    /\ UNCHANGED <<bufvars, faults, groups, i, output>>

\* Lines 107-115 (and 122-128): the buffers are reset and the map stage is
\* entered, sequentially when mapper_count <= 1.
mr_exec_enter ==
    /\ pc = "idle"
    /\ \E in \in Inputs(budget), mf \in MapFns, mc \in 0..MaxWorkers,
          rf \in ReduceFns, rc \in 0..MaxWorkers :
         /\ budget' = budget - Len(in)
         /\ input' = in /\ map_fn' = mf /\ mapper_count' = mc
         /\ reduce_fn' = rf /\ reducer_count' = rc
         /\ h' = [NoHistory EXCEPT !.mapCalls = [k \in 1..Len(in) |-> 0]]
         /\ IF mc <= 1
            THEN /\ pc' = "map_seq"
                 /\ tasks' = (Self :> Started(0, Len(in)))
            ELSE /\ pc' = "map_spawn"
                 /\ tasks' = [w \in 0..(mc - 1) |-> Unborn]
    /\ inter_count' = 0 /\ final_count' = 0
    /\ t' = 0 /\ offset' = 0 /\ ret' = "none"
    /\ UNCHANGED <<inter_kvs, inter_cap, inter_lock, final_kvs, final_cap, final_lock,
                   faults, groups, i, output>>

\* Lines 130-138: one iteration of the spawn loop.  pthread_create's result
\* is not looked at: when it fails no thread runs tasks[t].
map_spawn ==
    /\ pc = "map_spawn" /\ t < mapper_count
    /\ LET chunk_size == ChunkSize(Len(input), mapper_count, t) IN
         /\ \/ /\ tasks' = [tasks EXCEPT ![t] = Started(offset, offset + chunk_size)]
               /\ h' = h /\ faults' = faults
            \/ /\ faults > 0 /\ faults' = faults - 1
               /\ tasks' = [tasks EXCEPT ![t] = NoThread(offset, offset + chunk_size)]
               /\ h' = [h EXCEPT !.spawnFail = TRUE]
         /\ offset' = offset + chunk_size
    /\ IF t + 1 < mapper_count
       THEN t' = t + 1 /\ pc' = pc
       ELSE t' = 0 /\ pc' = "map_join"
    /\ UNCHANGED <<bufvars, argvars, budget, groups, i, output, ret>>

\* (Variant: a join that does not wait for its thread.)
MutJoinStep(next) ==
    IF t + 1 < Cardinality(DOMAIN tasks)
    THEN t' = t + 1 /\ pc' = pc
    ELSE t' = 0 /\ pc' = next

\* pthread_join(threads[t], NULL) returns once thread t has finished.  When
\* pthread_create failed, threads[t] was never set and the join is undefined:
\* it returns at once with an error nobody reads, or the process dies.
JoinStep(next) ==
    LET advance == IF t + 1 < Cardinality(DOMAIN tasks)
                   THEN t' = t + 1 /\ pc' = pc
                   ELSE t' = 0 /\ pc' = next
    IN  \/ tasks[t].pc = "done" /\ advance
        \/ tasks[t].pc = "nothread" /\ advance
        \/ tasks[t].pc = "nothread" /\ t' = t /\ pc' = "crashed"

\* Lines 141-143.
map_join ==
    /\ pc = "map_join"
    /\ JoinStep("map_done")
    /\ UNCHANGED <<bufvars, argvars, budget, faults, offset, tasks, groups, i, output, ret, h>>

\* Lines 117-119 have run to the end of the input.
map_seq_end ==
    /\ pc = "map_seq" /\ tasks[Self].pc = "done"
    /\ pc' = "map_done"
    /\ UNCHANGED <<bufvars, argvars, budget, faults, t, offset, tasks, groups, i, output, ret, h>>

---------------------------------------------------------------------------
(* Workers and callbacks, lines 84-105 (and the inline loops 117-119, 194-196) *)

\* map_worker, lines 86-88: the loop test, and the call of map_fn on record i.
map_worker(w) ==
    /\ MapStage /\ tasks[w].pc = "loop"
    /\ IF tasks[w].i < tasks[w].end
       THEN /\ tasks' = [tasks EXCEPT ![w].pc = "call", ![w].em = 1]
            /\ h' = [h EXCEPT !.mapCalls = Bump(@, tasks[w].i)]
       ELSE /\ tasks' = [tasks EXCEPT ![w].pc = "done"]
            /\ h' = h
    /\ UNCHANGED <<bufvars, argvars, pc, budget, faults, t, offset, groups, i, output, ret>>

\* reduce_worker, lines 101-103.
reduce_worker(w) ==
    /\ ReduceStage /\ tasks[w].pc = "loop"
    /\ IF tasks[w].i < tasks[w].end
       THEN /\ tasks' = [tasks EXCEPT ![w].pc = "call", ![w].em = 1]
            /\ h' = [h EXCEPT !.redCalls = Bump(@, tasks[w].i)]
       ELSE /\ tasks' = [tasks EXCEPT ![w].pc = "done"]
            /\ h' = h
    /\ UNCHANGED <<bufvars, argvars, pc, budget, faults, t, offset, groups, i, output, ret>>

\* The callback has made all its emit calls and returns: i++.
callback_return(w) ==
    /\ MapStage \/ ReduceStage
    /\ tasks[w].pc = "call" /\ tasks[w].em > Len(Emits(w))
    /\ tasks' = [tasks EXCEPT ![w].pc = "loop", ![w].i = @ + 1, ![w].em = 0]
    /\ UNCHANGED <<bufvars, argvars, pc, budget, faults, t, offset, groups, i, output, ret, h>>

---------------------------------------------------------------------------
(* The emission buffers: mr_emit_i, lines 32-49, and mr_emit_f, lines 52-69. *)
(* A buffer is seen as [kvs, count, cap, lock].                              *)

InterBuf == [kvs |-> inter_kvs, count |-> inter_count, cap |-> inter_cap, lock |-> inter_lock]

FinalBuf == [kvs |-> final_kvs, count |-> final_count, cap |-> final_cap, lock |-> final_lock]

\* pthread_mutex_lock by thread w, lines 33 / 53.
Locked(b, w) == [b EXCEPT !.lock = {w}]

\* if (count >= cap), lines 34 / 54.
IsFull(b) == b.count >= b.cap

\* realloc succeeded, lines 41-42 / 61-62.
Grown(b) == [b EXCEPT !.kvs = Realloc(b.kvs, NewCap(b.cap)), !.cap = NewCap(b.cap)]

\* (Variant: the return of line 39 / 59 without the unlock before it.)
MutGrowFailedLocked(b) == b

\* (Variant: the failed realloc's NULL assigned to kvs before the test.)
MutGrowFailed(b) == [b EXCEPT !.kvs = <<>>, !.lock = NoOwner]

\* realloc failed, lines 37-40 / 57-60: unlock and return -1.
GrowFailed(b) == [b EXCEPT !.lock = NoOwner]

\* The two strncpy into kvs[count], lines 44-45 / 64-65.
Stored(b, p) == [b EXCEPT !.kvs = [b.kvs EXCEPT ![b.count + 1] = StoredPair(p)]]

\* count++ and unlock, lines 46-47 / 66-67.
Unlocked(b) == [b EXCEPT !.count = b.count + 1, !.lock = NoOwner]

SetInter(b) ==
    /\ inter_kvs' = b.kvs /\ inter_count' = b.count
    /\ inter_cap' = b.cap /\ inter_lock' = b.lock
    /\ UNCHANGED <<final_kvs, final_count, final_cap, final_lock>>

SetFinal(b) ==
    /\ final_kvs' = b.kvs /\ final_count' = b.count
    /\ final_cap' = b.cap /\ final_lock' = b.lock
    /\ UNCHANGED <<inter_kvs, inter_count, inter_cap, inter_lock>>

\* The arguments of the emit call task w is in.
Arg(w) == Emits(w)[tasks[w].em]

\* Line 33.
mr_emit_i_lock(w) ==
    /\ MapStage /\ tasks[w].pc = "call" /\ tasks[w].em <= Len(Emits(w))
    /\ MutexFree(inter_lock)
    /\ SetInter(Locked(InterBuf, w))
    /\ tasks' = [tasks EXCEPT ![w].pc = "grow"]
    /\ UNCHANGED <<argvars, pc, budget, faults, t, offset, groups, i, output, ret, h>>

\* Lines 34-43.  A failed call returns -1 to the callback, a void function,
\* which goes on to its next emit call.
mr_emit_i_grow(w) ==
    /\ MapStage /\ tasks[w].pc = "grow"
    /\ IF IsFull(InterBuf)
       THEN \/ /\ SetInter(Grown(InterBuf))
               /\ tasks' = [tasks EXCEPT ![w].pc = "store"]
               /\ h' = h /\ faults' = faults
            \/ /\ faults > 0 /\ faults' = faults - 1
               /\ SetInter(GrowFailed(InterBuf))
               /\ tasks' = [tasks EXCEPT ![w].pc = "call", ![w].em = @ + 1]
               /\ h' = [h EXCEPT !.emitFail = TRUE, !.failAt = inter_count]
       ELSE /\ tasks' = [tasks EXCEPT ![w].pc = "store"]
            /\ UNCHANGED <<bufvars, h, faults>>
    /\ UNCHANGED <<argvars, pc, budget, t, offset, groups, i, output, ret>>

\* Lines 44-45.
mr_emit_i_store(w) ==
    /\ MapStage /\ tasks[w].pc = "store"
    /\ SetInter(Stored(InterBuf, Arg(w)))
    /\ tasks' = [tasks EXCEPT ![w].pc = "inc"]
    /\ UNCHANGED <<argvars, pc, budget, faults, t, offset, groups, i, output, ret, h>>

\* Lines 46-48: return 0.
mr_emit_i_exit(w) ==
    /\ MapStage /\ tasks[w].pc = "inc"
    /\ SetInter(Unlocked(InterBuf))
    /\ h' = [h EXCEPT !.ok_i = @ (+) SetToBag({Arg(w)})]
    /\ tasks' = [tasks EXCEPT ![w].pc = "call", ![w].em = @ + 1]
    /\ UNCHANGED <<argvars, pc, budget, faults, t, offset, groups, i, output, ret>>

\* Line 53.
mr_emit_f_lock(w) ==
    /\ ReduceStage /\ tasks[w].pc = "call" /\ tasks[w].em <= Len(Emits(w))
    /\ MutexFree(final_lock)
    /\ SetFinal(Locked(FinalBuf, w))
    /\ tasks' = [tasks EXCEPT ![w].pc = "grow"]
    /\ UNCHANGED <<argvars, pc, budget, faults, t, offset, groups, i, output, ret, h>>

\* Lines 54-63.
mr_emit_f_grow(w) ==
    /\ ReduceStage /\ tasks[w].pc = "grow"
    /\ IF IsFull(FinalBuf)
       THEN \/ /\ SetFinal(Grown(FinalBuf))
               /\ tasks' = [tasks EXCEPT ![w].pc = "store"]
               /\ h' = h /\ faults' = faults
            \/ /\ faults > 0 /\ faults' = faults - 1
               /\ SetFinal(GrowFailed(FinalBuf))
               /\ tasks' = [tasks EXCEPT ![w].pc = "call", ![w].em = @ + 1]
               /\ h' = [h EXCEPT !.emitFail = TRUE, !.failAt = final_count]
       ELSE /\ tasks' = [tasks EXCEPT ![w].pc = "store"]
            /\ UNCHANGED <<bufvars, h, faults>>
    /\ UNCHANGED <<argvars, pc, budget, t, offset, groups, i, output, ret>>

\* Lines 64-65.
mr_emit_f_store(w) ==
    /\ ReduceStage /\ tasks[w].pc = "store"
    /\ SetFinal(Stored(FinalBuf, Arg(w)))
    /\ tasks' = [tasks EXCEPT ![w].pc = "inc"]
    /\ UNCHANGED <<argvars, pc, budget, faults, t, offset, groups, i, output, ret, h>>

\* Lines 66-68: return 0.
mr_emit_f_exit(w) ==
    /\ ReduceStage /\ tasks[w].pc = "inc"
    /\ SetFinal(Unlocked(FinalBuf))
    /\ h' = [h EXCEPT !.ok_f = @ (+) SetToBag({Arg(w)})]
    /\ tasks' = [tasks EXCEPT ![w].pc = "call", ![w].em = @ + 1]
    /\ UNCHANGED <<argvars, pc, budget, faults, t, offset, groups, i, output, ret>>

---------------------------------------------------------------------------
(* mr_exec: group-by-key stage, lines 146-190 *)

\* (Variant: output->count is left unset.)
Mut_mr_exec_empty ==
    /\ pc = "map_done" /\ inter_count = 0
    /\ output' = [output EXCEPT !.kv_lst = <<>>]
    /\ ret' = "success" /\ pc' = "returned"
    /\ UNCHANGED <<bufvars, argvars, budget, faults, t, offset, tasks, groups, i, h>>

\* Lines 148-152: no intermediate data.
mr_exec_empty ==
    /\ pc = "map_done" /\ inter_count = 0
    /\ output' = [kv_lst |-> <<>>, count |-> 0]
    /\ ret' = "success" /\ pc' = "returned"
    /\ UNCHANGED <<bufvars, argvars, budget, faults, t, offset, tasks, groups, i, h>>

\* kvs with its first n entries arranged as s.
WithPrefix(kvs, n, s) == s \o SubSeq(kvs, n + 1, Len(kvs))

\* Lines 156-162: qsort of the intermediate pairs, then malloc of groups.
group_sort ==
    /\ pc = "map_done" /\ inter_count # 0
    /\ \E s \in Qsort(SubSeq(inter_kvs, 1, inter_count)) :
         inter_kvs' = WithPrefix(inter_kvs, inter_count, s)
    /\ \/ /\ pc' = "group" /\ ret' = ret /\ h' = h /\ faults' = faults
       \/ /\ faults > 0 /\ faults' = faults - 1
          /\ pc' = "returned" /\ ret' = "failure"
          /\ h' = [h EXCEPT !.allocFail = TRUE]
    /\ groups' = <<>> /\ i' = 0
    /\ UNCHANGED <<inter_count, inter_cap, inter_lock,
                   final_kvs, final_count, final_cap, final_lock,
                   argvars, budget, t, offset, tasks, output>>

\* (Variant: the scan of lines 171-173 left out, every pair its own group.)
MutRunEnd(kvs, n, k, j) == j

\* Lines 170-173: the first j > k with j = n or a key that differs from kvs[k]'s.
RECURSIVE RunEnd(_, _, _, _)
RunEnd(kvs, n, k, j) ==
    IF j < n /\ Strcmp(KeyStr(kvs[j + 1]), KeyStr(kvs[k + 1])) = 0
    THEN RunEnd(kvs, n, k, j + 1)
    ELSE j

\* Lines 167, 182-187: the group built from kvs[k .. j-1].
GroupOf(kvs, k, j) ==
    [key |-> Strncpy(KeyStr(kvs[k + 1]), MAX_KEY_SIZE),
     value |-> [v \in 1..(j - k) |-> Strncpy(CStr(kvs[k + v].value), MAX_VALUE_SIZE)],
     count |-> j - k]

\* Lines 193, 198-203: the reduce stage is entered over gcount groups.
EnterReduce(gcount) ==
    /\ h' = [h EXCEPT !.redCalls = [k \in 1..gcount |-> 0]]
    /\ t' = 0 /\ offset' = 0
    /\ IF reducer_count <= 1
       THEN /\ pc' = "red_seq"
            /\ tasks' = (Self :> Started(0, gcount))
       ELSE /\ pc' = "red_spawn"
            /\ tasks' = [w \in 0..(reducer_count - 1) |-> Unborn]

\* Lines 165-190: one iteration of the walk over the sorted pairs.  When the
\* malloc of the group's values fails, groups is freed and -1 returned.
group_walk ==
    /\ pc = "group" /\ i < inter_count
    /\ LET j == RunEnd(inter_kvs, inter_count, i, i + 1) IN
         \/ /\ groups' = Append(groups, GroupOf(inter_kvs, i, j))
            /\ i' = j /\ ret' = ret /\ faults' = faults
            /\ IF j < inter_count
               THEN pc' = pc /\ UNCHANGED <<t, offset, tasks, h>>
               ELSE EnterReduce(Len(groups) + 1)
         \/ /\ faults > 0 /\ faults' = faults - 1
            /\ groups' = <<>> /\ i' = i
            /\ pc' = "returned" /\ ret' = "failure"
            /\ h' = [h EXCEPT !.allocFail = TRUE]
            /\ UNCHANGED <<t, offset, tasks>>
    /\ UNCHANGED <<bufvars, argvars, budget, output>>

---------------------------------------------------------------------------
(* mr_exec: reduce stage, lines 192-217 *)

\* Lines 205-213: one iteration of the spawn loop.
reduce_spawn ==
    /\ pc = "red_spawn" /\ t < reducer_count
    /\ LET sz == ChunkSize(Len(groups), reducer_count, t) IN
         /\ \/ /\ tasks' = [tasks EXCEPT ![t] = Started(offset, offset + sz)]
               /\ h' = h /\ faults' = faults
            \/ /\ faults > 0 /\ faults' = faults - 1
               /\ tasks' = [tasks EXCEPT ![t] = NoThread(offset, offset + sz)]
               /\ h' = [h EXCEPT !.spawnFail = TRUE]
         /\ offset' = offset + sz
    /\ IF t + 1 < reducer_count
       THEN t' = t + 1 /\ pc' = pc
       ELSE t' = 0 /\ pc' = "red_join"
    /\ UNCHANGED <<bufvars, argvars, budget, groups, i, output, ret>>

\* Lines 214-216.
reduce_join ==
    /\ pc = "red_join"
    /\ JoinStep("red_done")
    /\ UNCHANGED <<bufvars, argvars, budget, faults, offset, tasks, groups, i, output, ret, h>>

\* Lines 194-196 have run to the last group.
red_seq_end ==
    /\ pc = "red_seq" /\ tasks[Self].pc = "done"
    /\ pc' = "red_done"
    /\ UNCHANGED <<bufvars, argvars, budget, faults, t, offset, tasks, groups, i, output, ret, h>>

---------------------------------------------------------------------------
(* mr_exec: packing, lines 219-243 *)

\* An element of output->kv_lst that was allocated and not written.
NoRecord == [key |-> <<>>, count |-> 0, value |-> <<>>]

\* Lines 220-233: the groups are freed, the final buffer is sorted and
\* output->kv_lst allocated; it is assigned also when the malloc failed.
pack_sort ==
    /\ pc = "red_done"
    /\ groups' = <<>>
    /\ \E s \in Qsort(SubSeq(final_kvs, 1, final_count)) :
         final_kvs' = WithPrefix(final_kvs, final_count, s)
    /\ \/ /\ output' = [kv_lst |-> [k \in 1..final_count |-> NoRecord],
                        count |-> final_count]
          /\ h' = h /\ faults' = faults
          /\ IF final_count > 0
             THEN pc' = "pack" /\ ret' = ret
             ELSE pc' = "returned" /\ ret' = "success"
       \/ /\ faults > 0 /\ faults' = faults - 1
          /\ output' = [output EXCEPT !.kv_lst = <<>>]
          /\ h' = [h EXCEPT !.allocFail = TRUE]
          /\ pc' = "returned" /\ ret' = "failure"
    /\ i' = 0
    /\ UNCHANGED <<inter_kvs, inter_count, inter_cap, inter_lock,
                   final_count, final_cap, final_lock,
                   argvars, budget, t, offset, tasks>>

\* Lines 237-240: the output record made of final-buffer entry e.
Packed(e) ==
    [key |-> Strncpy(KeyStr(e), MAX_KEY_SIZE), count |-> 1,
     value |-> << Strncpy(CStr(e.value), MAX_VALUE_SIZE) >>]

\* Lines 236-242: one iteration of the packing loop.  The malloc of line 239
\* is not checked: when it fails, line 240 writes through a null pointer,
\* which is undefined: the process dies, or goes on with no value stored.
pack_copy ==
    /\ pc = "pack" /\ i < final_count
    /\ LET e == final_kvs[i + 1]
           last == ~(i + 1 < final_count)
       IN  \/ /\ output' = [output EXCEPT !.kv_lst[i + 1] = Packed(e)]
              /\ h' = h /\ faults' = faults
              /\ i' = i + 1
              /\ IF last THEN pc' = "returned" /\ ret' = "success"
                         ELSE pc' = pc /\ ret' = ret
           \/ /\ faults > 0 /\ faults' = faults - 1
              /\ output' = [output EXCEPT !.kv_lst[i + 1] = [Packed(e) EXCEPT !.value = <<>>]]
              /\ h' = [h EXCEPT !.allocFail = TRUE, !.nullWrite = TRUE]
              /\ \/ /\ i' = i + 1
                    /\ IF last THEN pc' = "returned" /\ ret' = "success"
                               ELSE pc' = pc /\ ret' = ret
                 \/ i' = i /\ pc' = "crashed" /\ ret' = ret
    /\ UNCHANGED <<bufvars, argvars, budget, t, offset, tasks, groups>>

\* mr_exec has returned: its locals are gone, and the caller is done with
\* the status and the output and may call again.  The buffers stay.
caller ==
    /\ pc = "returned"
    /\ pc' = "idle"
    /\ input' = <<>> /\ map_fn' = "none" /\ mapper_count' = 0
    /\ reduce_fn' = "none" /\ reducer_count' = 0
    /\ t' = 0 /\ offset' = 0 /\ tasks' = <<>> /\ groups' = <<>> /\ i' = 0
    /\ output' = NoOutput /\ ret' = "none"
    /\ h' = NoHistory
    /\ UNCHANGED <<bufvars, budget, faults>>

---------------------------------------------------------------------------
(* Specification *)

Threads == DOMAIN tasks

Next ==
    \/ mr_exec_enter
    \/ map_spawn
    \/ map_join
    \/ map_seq_end
    \/ \E w \in Threads : map_worker(w)
    \/ \E w \in Threads : reduce_worker(w)
    \/ \E w \in Threads : callback_return(w)
    \/ \E w \in Threads : mr_emit_i_lock(w)
    \/ \E w \in Threads : mr_emit_i_grow(w)
    \/ \E w \in Threads : mr_emit_i_store(w)
    \/ \E w \in Threads : mr_emit_i_exit(w)
    \/ \E w \in Threads : mr_emit_f_lock(w)
    \/ \E w \in Threads : mr_emit_f_grow(w)
    \/ \E w \in Threads : mr_emit_f_store(w)
    \/ \E w \in Threads : mr_emit_f_exit(w)
    \/ mr_exec_empty
    \/ group_sort
    \/ group_walk
    \/ reduce_spawn
    \/ reduce_join
    \/ red_seq_end
    \/ pack_sort
    \/ pack_copy
    \/ caller

Spec == Init /\ [][Next]_vars

---------------------------------------------------------------------------
(* Observations used by the properties *)

\* The bag of the elements of a sequence.
RECURSIVE SeqBag(_)
SeqBag(s) == IF s = <<>> THEN EmptyBag ELSE SetToBag({Head(s)}) (+) SeqBag(Tail(s))

\* The bag of F(x), x in bag B, F being StoredPair or Truncated.
RECURSIVE StoredImage(_, _)
StoredImage(S, B) ==
    IF S = {} THEN EmptyBag
    ELSE LET x == CHOOSE x \in S : TRUE
         IN  (StoredPair(x) :> CopiesIn(x, B)) (+) StoredImage(S \ {x}, B)

StoredBag(B) == StoredImage(BagToSet(B), B)

InterEntries == SubSeq(inter_kvs, 1, inter_count)

FinalEntries == SubSeq(final_kvs, 1, final_count)

\* The map stage is over: its workers were joined, or its loop has ended.
AfterMap ==
    pc \in {"map_done", "group", "red_seq", "red_spawn", "red_join", "red_done",
            "pack", "returned"}

\* The reduce stage is over.
AfterReduce == pc \in {"red_done", "pack", "returned"}

\* groups[] is complete and not yet freed.
Grouped == pc \in {"red_seq", "red_spawn", "red_join", "red_done"}

Returned(status) == pc = "returned" /\ ret = status

---------------------------------------------------------------------------
(* Properties *)

\* C1: once the workers of a stage have been joined, the stage's buffer holds
\* exactly the pairs passed to the emit calls that returned 0, each as the
\* two strncpy store it: the count is the number of those calls, and no
\* entry was lost, duplicated or overwritten by a concurrent append.
C1_BufferHoldsSuccessfulEmits ==
    /\ AfterMap =>
         /\ inter_count = BagCardinality(h.ok_i)
         /\ inter_count <= Len(inter_kvs)
         /\ SeqBag(InterEntries) = StoredBag(h.ok_i)
    /\ AfterReduce =>
         /\ final_count = BagCardinality(h.ok_f)
         /\ final_count <= Len(final_kvs)
         /\ SeqBag(FinalEntries) = StoredBag(h.ok_f)

\* C1's case: two map threads and two reduce threads, each with a range that
\* is not empty, have appended and were joined.
C1_Witness ==
    /\ pc = "red_done" /\ mapper_count > 1 /\ reducer_count > 1
    /\ inter_count >= 2 /\ final_count >= 2
    /\ \A w \in DOMAIN tasks : tasks[w].pc = "done" /\ tasks[w].end > tasks[w].start

\* C2: no record is mapped twice and no group reduced twice, and when
\* mr_exec returns success the map callback was called exactly once on every
\* input record and the reduce callback exactly once on every group.
C2_EachItemExactlyOnce ==
    /\ \A k \in DOMAIN h.mapCalls : h.mapCalls[k] <= 1
    /\ \A k \in DOMAIN h.redCalls : h.redCalls[k] <= 1
    /\ Returned("success") =>
         /\ \A k \in DOMAIN h.mapCalls : h.mapCalls[k] = 1
         /\ \A k \in DOMAIN h.redCalls : h.redCalls[k] = 1

\* With every thread created, C2 does hold.
C2_ExactlyOnceIfAllSpawned == h.spawnFail \/ C2_EachItemExactlyOnce

\* C3: when mr_exec returns success the output records are non-decreasing
\* by key, byte-wise.
C3_OutputSortedByKey ==
    Returned("success") =>
        \A a, b \in 1..output.count :
            a < b => Strcmp(CStr(output.kv_lst[a].key), CStr(output.kv_lst[b].key)) <= 0

\* C3's case: a successful run with concurrent reducers whose output has
\* records of different keys.
C3_Witness ==
    /\ Returned("success") /\ reducer_count > 1 /\ output.count >= 2
    /\ output.kv_lst[1].key # output.kv_lst[output.count].key

\* A group as its key and the bag of its values.
GroupSet(gs) == { [key |-> gs[k].key, vals |-> SeqBag(gs[k].value)] : k \in 1..Len(gs) }

\* The intermediate pairs of the map stage run with mapper_count <= 1 and
\* every append succeeding: lines 117-119 over the input, in order.
RECURSIVE SeqInter(_, _)
SeqInter(in, fn) ==
    IF in = <<>> THEN <<>>
    ELSE [k \in 1..Len(MapEmits(fn, Head(in))) |-> StoredPair(MapEmits(fn, Head(in))[k])]
         \o SeqInter(Tail(in), fn)

\* Lines 165-190 over the sorted pairs kvs, from index k on.
RECURSIVE Walk(_, _)
Walk(kvs, k) ==
    IF k >= Len(kvs) THEN <<>>
    ELSE LET j == RunEnd(kvs, Len(kvs), k, k + 1)
         IN  <<GroupOf(kvs, k, j)>> \o Walk(kvs, j)

\* The sets of groups the run with one mapper can yield.
SeqGroupSets(in, fn) == { GroupSet(Walk(s, 0)) : s \in Qsort(SeqInter(in, fn)) }

\* C4: in a run with mapper_count > 1 all of whose appends succeed, under
\* any interleaving, the set of groups (key, bag of values) is the one the
\* map stage with mapper_count = 1 yields for the same input and map
\* function; and such a run finds no intermediate pair only when the
\* single-mapper run has no group.
C4_SameGroupsAsOneMapper ==
    (mapper_count > 1 /\ ~h.emitFail) =>
        /\ Grouped => GroupSet(groups) \in SeqGroupSets(input, map_fn)
        /\ (AfterMap /\ inter_count = 0) => SeqGroupSets(input, map_fn) = { {} }

\* With every thread created, C4 does hold.
C4_SameGroupsIfAllSpawned == h.spawnFail \/ C4_SameGroupsAsOneMapper

\* C5: when the map stage leaves the intermediate buffer empty, mr_exec
\* goes nowhere but to its return, with success, an output of count 0 and
\* no list, and the reduce callback not called.
C5_EmptyIntermediateReturnsEmpty ==
    (inter_count = 0 /\ AfterMap /\ pc # "map_done") =>
        /\ Returned("success")
        /\ output = [kv_lst |-> <<>>, count |-> 0]
        /\ h.redCalls = <<>>

\* C5's case: a run over no input record, with concurrent stages asked for,
\* has returned.
C5_Witness ==
    /\ pc = "returned" /\ inter_count = 0 /\ input = <<>>
    /\ mapper_count > 1 /\ reducer_count > 1

\* A step in which a growth fails: the thread in lines 34-40 returns to its
\* callback without storing.
GrowFailStep ==
    \E w \in DOMAIN tasks :
        /\ tasks[w].pc = "grow" /\ w \in DOMAIN tasks' /\ tasks'[w].pc = "call"

\* C6: an append that finds its buffer full and whose growth fails returns
\* failure and leaves count, capacity and every stored entry of the buffer
\* as they were; it adds no entry and releases the lock.
C6_FailedGrowthLeavesBuffer ==
    [][GrowFailStep =>
         /\ inter_kvs' = inter_kvs /\ inter_count' = inter_count /\ inter_cap' = inter_cap
         /\ final_kvs' = final_kvs /\ final_count' = final_count /\ final_cap' = final_cap
         /\ inter_lock' = NoOwner /\ final_lock' = NoOwner
         /\ h'.emitFail /\ h'.ok_i = h.ok_i /\ h'.ok_f = h.ok_f]_vars

\* C6's case: a growth of the intermediate buffer has just failed while the
\* buffer held entries.
C6_Witness ==
    /\ MapStage /\ h.emitFail /\ h.failAt >= 1
    /\ inter_count = h.failAt /\ inter_cap = h.failAt /\ inter_lock = NoOwner
    /\ BagCardinality(h.ok_i) = inter_count

\* C7: a run in which an emit call returned failure does not return success.
C7_EmitFailureFailsRun == (pc = "returned" /\ h.emitFail) => ret = "failure"

\* C8: a run in which pthread_create failed does not return success.
C8_SpawnFailureFailsRun == (pc = "returned" /\ h.spawnFail) => ret = "failure"

\* C9: a run in which a malloc of mr_exec failed returns failure, and never
\* writes through the pointer the failed malloc returned.
C9_AllocFailureFailsRun ==
    /\ (pc = "returned" /\ h.allocFail) => ret = "failure"
    /\ ~h.nullWrite

\* The bounded string of s for a field of n bytes: its first n - 1 bytes at
\* most, and a terminator.
Truncated(s, n) == Strncpy(SubSeq(s, 1, IF Len(s) < n THEN Len(s) ELSE n - 1), n)

TruncatedPair(p) ==
    [key |-> Truncated(p.key, MAX_KEY_SIZE), value |-> Truncated(p.value, MAX_VALUE_SIZE)]

\* C10: every key and value stored in a buffer, a group or the output is
\* terminated within its field, and an entry of the intermediate buffer is
\* the truncation to (max - 1) bytes of a pair passed to mr_emit_i.
C10_StoredStringsTerminated ==
    /\ \A k \in 1..inter_count : HasNul(inter_kvs[k].key) /\ HasNul(inter_kvs[k].value)
    /\ \A k \in 1..final_count : HasNul(final_kvs[k].key) /\ HasNul(final_kvs[k].value)
    /\ \A k \in 1..Len(groups) :
         HasNul(groups[k].key) /\ \A v \in 1..groups[k].count : HasNul(groups[k].value[v])
    /\ \A k \in 1..Len(output.kv_lst) :
         output.kv_lst[k].count = 1 =>
            /\ HasNul(output.kv_lst[k].key)
            /\ \A v \in 1..Len(output.kv_lst[k].value) : HasNul(output.kv_lst[k].value[v])
    /\ AfterMap =>
         \A k \in 1..inter_count :
            inter_kvs[k] \in { TruncatedPair(p) : p \in BagToSet(h.ok_i) }

\* Within the bounds, what is stored is what was passed: C10 holds for
\* every run whose emit calls pass strings shorter than the fields.
C10_TerminatedIfShort == pc = "idle" \/ map_fn = "long" \/ C10_StoredStringsTerminated

\* Output record r as the pair of fields it holds: its key and its value[0].
RecordPair(r) == [key |-> r.key, value |-> r.value[1]]

\* The output records as pairs, those that hold one value.
OutputPairs ==
    [k \in 1..Len(output.kv_lst) |-> RecordPair(output.kv_lst[k])]

\* mr_exec has returned 0 from line 242, after the packing loop.
ReturnedPacked == Returned("success") /\ inter_count # 0

\* C11: when mr_exec returns success after packing, output->count is the
\* number of final-buffer entries, every output record has count 1 and one
\* value, and the output pairs are, as a bag, the final-buffer entries:
\* entries of the same key are neither merged nor dropped.
C11_OutputIsFinalBuffer ==
    ReturnedPacked =>
        /\ output.count = final_count
        /\ Len(output.kv_lst) = final_count
        /\ \A k \in 1..Len(output.kv_lst) :
             output.kv_lst[k].count = 1 /\ Len(output.kv_lst[k].value) = 1
        /\ SeqBag(OutputPairs) = SeqBag(FinalEntries)

\* With every malloc of line 239 succeeding, C11 does hold.
C11_PackedIfAllocated == h.nullWrite \/ C11_OutputIsFinalBuffer

---------------------------------------------------------------------------
(* Scheduling *)

\* The steps of thread w: a worker thread's, or with w = Self those the
\* orchestrator's thread makes inside the sequential loops.
WorkerStep(w) ==
    /\ w \in Threads
    /\ \/ map_worker(w) \/ reduce_worker(w) \/ callback_return(w)
       \/ mr_emit_i_lock(w) \/ mr_emit_i_grow(w) \/ mr_emit_i_store(w) \/ mr_emit_i_exit(w)
       \/ mr_emit_f_lock(w) \/ mr_emit_f_grow(w) \/ mr_emit_f_store(w) \/ mr_emit_f_exit(w)

\* The steps of mr_exec itself, from its first spawn to its return.
Orchestrator ==
    \/ map_spawn \/ map_join \/ map_seq_end
    \/ mr_exec_empty \/ group_sort \/ group_walk
    \/ reduce_spawn \/ reduce_join \/ red_seq_end
    \/ pack_sort \/ pack_copy

\* Every thread that can go on does: the callbacks return, and the scheduler
\* leaves no runnable thread behind for ever.  Nothing makes the caller call
\* mr_exec again.
FairSpec ==
    /\ Spec
    /\ WF_vars(Orchestrator)
    /\ \A w \in 0..(MaxWorkers - 1) : WF_vars(WorkerStep(w))

\* mr_exec is running: it was called and has not returned.
InCall == pc \notin {"idle", "returned"}

\* C12: under fair scheduling every call of mr_exec returns, with success
\* or failure.
C12_EveryCallReturns == InCall ~> (pc = "returned")

\* Every call returns or ends in the death of the process, and the process
\* dies only of a join on a thread that was not created or of the write
\* through the null pointer of line 240.
C12_ReturnsUnlessCrashed == InCall ~> (pc \in {"returned", "crashed"})

C12_CrashOnlyByIgnoredFailure == pc = "crashed" => (h.spawnFail \/ h.nullWrite)

\* The example run: input [("a","1"), ("b","2"), ("a","3")], a map that
\* emits each record unchanged, a reduce that emits the key with the group's
\* values concatenated in group order.
ExampleRun == input = Stream /\ map_fn = "identity" /\ reduce_fn = "concat"

\* No realloc, malloc or pthread_create has failed in the current run.
NoFailure == ~h.emitFail /\ ~h.spawnFail /\ ~h.allocFail

\* The output record of count 1 that holds the strings k and v.
ExampleRecord(k, v) ==
    [key |-> Strncpy(k, MAX_KEY_SIZE), count |-> 1, value |-> << Strncpy(v, MAX_VALUE_SIZE) >>]

\* [("a","13"), ("b","2")]
Output13 ==
    [kv_lst |-> << ExampleRecord(<<97>>, <<49, 51>>), ExampleRecord(<<98>>, <<50>>) >>,
     count |-> 2]

\* [("a","31"), ("b","2")]
Output31 ==
    [kv_lst |-> << ExampleRecord(<<97>>, <<51, 49>>), ExampleRecord(<<98>>, <<50>>) >>,
     count |-> 2]

C13_Reaches13 ==
    /\ ExampleRun /\ NoFailure /\ Returned("success")
    /\ mapper_count <= 1 /\ reducer_count <= 1
    /\ output = Output13

\* With two mappers the pairs are appended in the order the threads reach
\* the lock, not in the input's order: this does not hold, and ("a","3")
\* stands before ("a","1") in the buffer before any sort.
C13_AppendsInInputOrder ==
    (ExampleRun /\ NoFailure /\ pc = "map_done") =>
        InterEntries = SeqInter(input, map_fn)

\* mr_exec is past a stage: at the test of line 148 or in the group stage
\* (past the map stage), or freeing the groups, sorting the final buffer,
\* packing or returned (past the reduce stage, or past the map stage when it
\* returned early).
PastStage == pc \in {"map_done", "group", "red_done", "pack", "returned"}

\* C14: join barrier.  Whenever mr_exec is past a stage, no worker of that
\* stage is still running: the sort and the grouping of the intermediate
\* buffer, the freeing of the groups, the sort of the final buffer, the
\* packing and the return all find every thread of the stage finished or
\* never created.
C14_JoinBarrier ==
    PastStage => \A w \in DOMAIN tasks : ~Running(w)

\* C14's case: mr_exec is in the group stage after two map threads, each of
\* which has mapped records, were joined.
C14_Witness ==
    /\ pc = "group" /\ mapper_count > 1
    /\ \A w \in DOMAIN tasks : tasks[w].pc = "done" /\ tasks[w].i > tasks[w].start

\* The same past the reduce stage: two reduce threads that reduced groups
\* were joined before the final buffer is sorted.
C14_ReduceJoined ==
    /\ pc = "red_done" /\ reducer_count > 1
    /\ \A w \in DOMAIN tasks : tasks[w].pc = "done" /\ tasks[w].i > tasks[w].start

---------------------------------------------------------------------------
(* Partitioning runs: the spawn loops of lines 130-138 and 205-213 over      *)
(* larger item and worker counts than the calls of Spec reach.               *)

\* n records of distinct one-byte keys "a", "b", ..., each of value "1".
PartRecords(n) == [k \in 1..n |-> [key |-> <<96 + k>>, value |-> <<49>>]]

\* The capacity n appends leave a buffer of capacity cap with.
RECURSIVE CapFor(_, _)
CapFor(cap, n) == IF n <= cap THEN cap ELSE CapFor(NewCap(cap), n)

\* mr_exec at line 130 of a first call, over N records with W mappers.
AtMapSpawn(N, W) ==
    /\ inter_kvs = <<>> /\ inter_count = 0 /\ inter_cap = 0
    /\ input = PartRecords(N) /\ mapper_count = W /\ reducer_count = 0
    /\ groups = <<>> /\ i = 0
    /\ h = [NoHistory EXCEPT !.mapCalls = [k \in 1..N |-> 0]]
    /\ pc = "map_spawn"

\* mr_exec at line 205 of a first call whose sequential map stage has
\* appended N pairs of distinct keys, over the N groups, with W reducers.
AtReduceSpawn(N, W) ==
    /\ inter_kvs = Realloc(SeqInter(PartRecords(N), "identity"), CapFor(0, N))
    /\ inter_count = N /\ inter_cap = CapFor(0, N)
    /\ input = PartRecords(N) /\ mapper_count = 1 /\ reducer_count = W
    /\ groups = Walk(SeqInter(PartRecords(N), "identity"), 0) /\ i = N
    /\ h = [NoHistory EXCEPT !.mapCalls = [k \in 1..N |-> 1],
                             !.redCalls = [k \in 1..N |-> 0],
                             !.ok_i = SeqBag(PartRecords(N))]
    /\ pc = "red_spawn"

PartInit ==
    /\ inter_lock = NoOwner
    /\ final_kvs = <<>> /\ final_count = 0 /\ final_cap = 0 /\ final_lock = NoOwner
    /\ budget = 0 /\ faults = MaxFaults
    /\ map_fn = "identity" /\ reduce_fn = "concat"
    /\ t = 0 /\ offset = 0
    /\ output = NoOutput /\ ret = "none"
    /\ \E W \in 2..PartWorkers :
         /\ tasks = [w \in 0..(W - 1) |-> Unborn]
         /\ \/ \E N \in 0..PartItems : AtMapSpawn(N, W)
            \/ \E N \in 1..PartItems : AtReduceSpawn(N, W)

PartNext == map_spawn \/ reduce_spawn

PartSpec == PartInit /\ [][PartNext]_vars

\* The length of task w's range.
RangeLen(w) == tasks[w].end - tasks[w].start

\* tasks[0 .. W-1] hold a partition of [0, N) as the claim describes it.
Partitioned(N, W) ==
    /\ DOMAIN tasks = 0..(W - 1)
    /\ tasks[0].start = 0 /\ tasks[W - 1].end = N
    /\ \A w \in 0..(W - 2) : tasks[w].end = tasks[w + 1].start
    /\ \A w \in 0..(W - 1) : tasks[w].start <= tasks[w].end
    /\ \A k \in 0..(N - 1) :
         Cardinality({ w \in 0..(W - 1) : tasks[w].start <= k /\ k < tasks[w].end }) = 1
    /\ \A w \in 0..(W - 1) : RangeLen(w) \in { N \div W, (N + W - 1) \div W }
    /\ \A w \in 0..(W - 1) :
         RangeLen(w) = (N \div W) + 1 <=> w < N % W

\* C15: once a spawn loop has set every task, the W ranges are contiguous,
\* ordered and pairwise disjoint, cover [0, N) exactly, each has length
\* floor(N/W) or ceil(N/W), and exactly the first (N mod W) have the larger
\* length; N is the record count in the map stage, the group count in the
\* reduce stage.
C15_RangesPartition ==
    /\ pc = "map_join" => Partitioned(Len(input), mapper_count)
    /\ pc = "red_join" => Partitioned(Len(groups), reducer_count)

\* C15's case: more than two map tasks were set over an item count that
\* leaves a remainder of two or more, so that ranges of both lengths exist
\* and more than one has the larger.
C15_Witness ==
    /\ pc = "map_join" /\ mapper_count > 2
    /\ Len(input) > mapper_count /\ Len(input) % mapper_count > 1

\* The same in the reduce stage, with fewer groups than reducers.
C15_ReduceSurplus ==
    /\ pc = "red_join" /\ reducer_count > Len(groups) + 1
    /\ Len(groups) > 1

\* The intermediate pairs whose key field is key, in buffer order.
PairsOf(key) == SelectSeq(InterEntries, LAMBDA e : e.key = key)

\* The value fields of the pairs of a sequence.
ValuesOf(es) == [k \in 1..Len(es) |-> es[k].value]

\* The key fields among the intermediate pairs.
InterKeys == { InterEntries[k].key : k \in 1..inter_count }

\* C16: after the group stage the groups are in strictly ascending key
\* order, there are as many groups as distinct keys among the intermediate
\* pairs, and each group holds, as count and as bag of values, exactly the
\* pairs bearing its key; hence there are at most as many groups as pairs,
\* and as many exactly when all keys are distinct.
C16_GroupsAreKeyClasses ==
    Grouped =>
        /\ \A a, b \in 1..Len(groups) :
             a < b => Strcmp(CStr(groups[a].key), CStr(groups[b].key)) < 0
        /\ Len(groups) = Cardinality(InterKeys)
        /\ \A g \in 1..Len(groups) :
             /\ groups[g].count = Len(PairsOf(groups[g].key))
             /\ Len(groups[g].value) = groups[g].count
             /\ SeqBag(groups[g].value) = SeqBag(ValuesOf(PairsOf(groups[g].key)))
        /\ Len(groups) <= inter_count
        /\ Len(groups) = inter_count <=> Cardinality(InterKeys) = inter_count

\* With every key shorter than its field, C16 does hold.
C16_KeyClassesIfShort == map_fn = "long" \/ C16_GroupsAreKeyClasses

\* A group of two values was built from pairs that two map threads appended.
C16_TwoValueGroup ==
    /\ Grouped /\ mapper_count > 1 /\ map_fn = "identity"
    /\ \E g \in 1..Len(groups) : groups[g].count = 2
    /\ Len(groups) = 2

\* The pairs (key, value) the groups hold, as a bag.
RECURSIVE GroupPairs(_)
GroupPairs(gs) ==
    IF gs = <<>> THEN EmptyBag
    ELSE SeqBag([v \in 1..Len(Head(gs).value) |->
                    [key |-> Head(gs).key, value |-> Head(gs).value[v]]])
         (+) GroupPairs(Tail(gs))

\* The current run is in its map stage and has not called the map callback.
BeforeFirstMap == MapStage /\ \A k \in DOMAIN h.mapCalls : h.mapCalls[k] = 0

\* C17: in every run, whatever the earlier runs did, both buffers have
\* length zero before the first map callback, and nothing of an earlier run
\* is in the groups or in the output: the groups hold exactly the pairs
\* appended by this run's mr_emit_i calls, and the output has one record for
\* each pair appended by this run's mr_emit_f calls, with that pair's key
\* and, where a value was stored, that pair's value.
C17_BuffersResetEachRun ==
    /\ BeforeFirstMap => inter_count = 0 /\ final_count = 0
    /\ MapStage => final_count = 0
    /\ Grouped => GroupPairs(groups) = StoredBag(h.ok_i)
    /\ Returned("success") =>
         /\ output.count = BagCardinality(h.ok_f)
         /\ \A k \in 1..Len(output.kv_lst) :
              /\ output.kv_lst[k].key \in { p.key : p \in BagToSet(StoredBag(h.ok_f)) }
              /\ Len(output.kv_lst[k].value) = 1 =>
                    RecordPair(output.kv_lst[k]) \in BagToSet(StoredBag(h.ok_f))

\* C17's case: a later run has returned an output while both buffers still
\* hold, past their counts, an entry an earlier run stored.
C17_Witness ==
    /\ Returned("success") /\ output.count >= 1
    /\ inter_count < Len(inter_kvs) /\ inter_kvs[inter_count + 1] # Uninit
    /\ final_count < Len(final_kvs) /\ final_kvs[final_count + 1] # Uninit

\* The same after an earlier run in which an allocation or a thread creation
\* failed: the current run has seen no failure, the failures the bounds
\* allow have happened, and the intermediate buffer holds a stale entry.
C17_AfterFailedRun ==
    /\ Returned("success") /\ output.count >= 1 /\ NoFailure /\ faults = 0
    /\ inter_count < Len(inter_kvs) /\ inter_kvs[inter_count + 1] # Uninit

\* Thread w is inside an append: between the lock and the unlock of
\* mr_emit_i or mr_emit_f.
InAppend(w) == tasks[w].pc \in {"grow", "store", "inc"}

\* C18: while the process lives, the holders of inter_lock are exactly the
\* threads inside an append to the intermediate buffer and the holders of
\* final_lock exactly those inside an append to the final buffer, and there
\* is at most one of each.  So a thread that runs callback code outside an
\* emit, that has returned from an emit on either path, or that has
\* finished holds no lock, and mr_exec's own code (spawn, join, sort, group
\* walk, packing) runs with no lock held by its thread.
C18_LockHeldOnlyInAppend ==
    pc # "crashed" =>
        /\ inter_lock = { w \in Threads : MapStage /\ InAppend(w) }
        /\ final_lock = { w \in Threads : ReduceStage /\ InAppend(w) }
        /\ Cardinality(inter_lock) <= 1 /\ Cardinality(final_lock) <= 1

\* C18's case: one reduce thread is inside an append to the final buffer
\* while the other is in its callback, about to call mr_emit_f.
C18_Witness ==
    /\ pc = "red_join"
    /\ \E w, v \in Threads :
         /\ w # v /\ InAppend(w) /\ final_lock = {w}
         /\ tasks[v].pc = "call" /\ tasks[v].em <= Len(Emits(v))

\* With W > N workers set over N items: the first N tasks have the ranges
\* [w, w + 1) they have when W = N, and every surplus task has an empty
\* range, was started, has called no callback and made no append.
SurplusNoOps(N, W) ==
    /\ \A w \in 0..(N - 1) : tasks[w].start = w /\ tasks[w].end = w + 1
    /\ \A w \in N..(W - 1) :
         /\ tasks[w].start = tasks[w].end
         /\ tasks[w].i = tasks[w].start
         /\ tasks[w].pc \in {"loop", "done"}

\* All surplus threads have completed.
SurplusDone(N, W) == \A w \in N..(W - 1) : tasks[w].pc = "done"

\* C19: when a stage has more workers than items, every surplus worker has
\* an empty range, invokes the callback zero times, appends nothing and
\* completes, and the other workers have the ranges of the run with as
\* many workers as items, so that status and output are those of that run;
\* the stage is left with every surplus thread finished.
C19_SurplusWorkersAreNoOps ==
    /\ (pc \in {"map_join", "map_done", "group"} /\ mapper_count > 1
          /\ mapper_count > Len(input)) =>
         /\ SurplusNoOps(Len(input), mapper_count)
         /\ pc # "map_join" => SurplusDone(Len(input), mapper_count)
    /\ (pc \in {"red_join", "red_done"} /\ reducer_count > 1
          /\ reducer_count > Len(groups)) =>
         /\ SurplusNoOps(Len(groups), reducer_count)
         /\ pc # "red_join" => SurplusDone(Len(groups), reducer_count)

\* With every thread created, C19 does hold.
C19_NoOpsIfAllSpawned == h.spawnFail \/ C19_SurplusWorkersAreNoOps

\* A run with a surplus map thread and a surplus reduce thread, in which
\* nothing failed, has returned an output.
C19_SurplusRunReturns ==
    /\ Returned("success") /\ NoFailure /\ output.count = 1
    /\ Len(input) = 1 /\ mapper_count = 2 /\ reducer_count = 2
    /\ \A w \in DOMAIN tasks : tasks[w].pc = "done"

\* c is INITIAL_CAP * 2^k for some k >= 0.
RECURSIVE IsDoubled(_)
IsDoubled(c) ==
    \/ c = INITIAL_CAP
    \/ c > INITIAL_CAP /\ c % 2 = 0 /\ IsDoubled(c \div 2)

\* A buffer within its capacity: count <= cap, the storage has cap slots,
\* and cap is 0 or INITIAL_CAP * 2^k.
WithinCap(b) ==
    /\ b.count <= b.cap
    /\ Len(b.kvs) = b.cap
    /\ b.cap = 0 \/ IsDoubled(b.cap)

\* In every state both buffers are within their capacity, and a thread
\* about to write its entry (lines 44-45 / 64-65) writes at an index below
\* the capacity.
C20_CountWithinCap ==
    /\ WithinCap(InterBuf) /\ WithinCap(FinalBuf)
    /\ \A w \in Threads :
         tasks[w].pc = "store" =>
            /\ MapStage => inter_count < inter_cap
            /\ ReduceStage => final_count < final_cap

\* A step from buffer b to c changes the capacity only from 0 to
\* INITIAL_CAP or to its double, only when count = cap, and then keeps the
\* count and the stored entries; no step decreases the capacity.
CapStep(b, c) ==
    /\ c.cap >= b.cap
    /\ c.cap # b.cap =>
         /\ b.count = b.cap /\ c.count = b.count
         /\ c.cap = (IF b.cap = 0 THEN INITIAL_CAP ELSE 2 * b.cap)
         /\ SubSeq(c.kvs, 1, b.cap) = b.kvs
    /\ c.count < b.count => c.count = 0 /\ c.cap = b.cap /\ c.kvs = b.kvs

InterBufNext ==
    [kvs |-> inter_kvs', count |-> inter_count', cap |-> inter_cap', lock |-> inter_lock']

FinalBufNext ==
    [kvs |-> final_kvs', count |-> final_count', cap |-> final_cap', lock |-> final_lock']

\* C20: in every reachable state, across runs and interleavings, each
\* buffer has count <= capacity and every append writes below the
\* capacity; the capacity is 0 or INITIAL_CAP * 2^k, changes only from 0 to
\* INITIAL_CAP or by doubling when an append finds count = capacity, and
\* never decreases: the reset at the start of a run sets the count to 0 and
\* leaves capacity and storage as they are.
C20_CapacityDiscipline ==
    /\ []C20_CountWithinCap
    /\ [][CapStep(InterBuf, InterBufNext) /\ CapStep(FinalBuf, FinalBufNext)]_vars

\* C20's case: the first append of a later run is about to write into the
\* storage an earlier run grew by doubling, which the reset kept.
C20_Witness ==
    /\ MapStage /\ inter_count = 0 /\ inter_cap = 2 * INITIAL_CAP
    /\ \E w \in Threads : tasks[w].pc = "store"

\* Both buffers have grown from 0 to INITIAL_CAP and doubled twice.
C20_DoubledTwice ==
    /\ inter_cap = 4 * INITIAL_CAP /\ inter_count = 3
    /\ final_cap = 4 * INITIAL_CAP /\ final_count = 3

====
